---- MODULE Spec2Model ----
(***************************************************************************)
(* A model of the HSK analog digital conversion driver (hsk_adc.c): the    *)
(* conversion target registry, the round-robin channel scheduler, the      *)
(* queue request interface, the result delivery interrupt handlers and     *)
(* the 10 bit warm-up sequencer, together with the part of the ADC         *)
(* hardware the driver talks to (request queue, result register 0, the     *)
(* ADCSR0 interrupt and its enable bit EADC).                              *)
(*                                                                         *)
(* Foreground functions that touch state shared with the interrupt         *)
(* handler (open, close, warmup) advance one statement group at a time     *)
(* (variable pc), so the interrupt can preempt them wherever EADC allows.  *)
(* The interrupt handler runs to completion (single core, no nesting).     *)
(***************************************************************************)
EXTENDS Integers, Sequences, FiniteSets, TLC

(* ------------------------------------------------------------------ *)
(* Program constants                                                  *)
(* ------------------------------------------------------------------ *)
ADC_CHANNELS == 8
ADC_QUEUE == 4
BIT_CHNR == 0
CNT_CHNR == 3
BIT_RESULT == 6
CNT_RESULT == 10
BIT_FILL == 0
CNT_FILL == 2
BIT_EMPTY == 5
BIT_REQCHNR == 0
ADC_CLK_12MHz == 0
ADC_CLK_8MHz == 1
ADC_CLK_6MHz == 2
ADC_CLK_750kHz == 3

\* The null pointer held by an unregistered slot of targets[].
NULL == 0

\* The value hsk_adc_warmup10() writes into every target (0xffff).
WARMUP_INVALID == 65535

(* ------------------------------------------------------------------ *)
(* Bounds of the model                                                *)
(* ------------------------------------------------------------------ *)
\* How many of the 8 channels the application ever opens or requests.
MaxUsed == 2
\* Raw conversion results are 0..MaxResult and the full-scale value.
MaxResult == 1
\* Longest window of successful service() calls that is counted.
MaxWindow == 4

\* The channels the application uses, in the order they are added as
\* MaxUsed grows: 5 and 0 first (a channel above and one below), then 7.
ChannelOrder == <<5, 0, 7, 2, 6, 1, 3, 4>>
UsedChannels == {ChannelOrder[i] : i \in 1..MaxUsed}
Channels == 0..(ADC_CHANNELS - 1)
\* The application gives every channel a target location of its own, at
\* an address whose low and high byte both differ from those of NULL.
TargetOf(c) == 256 * (c + 1) + c + 1
Addrs == {TargetOf(c) : c \in UsedChannels}

(* ------------------------------------------------------------------ *)
(* C integer and bit arithmetic                                       *)
(* ------------------------------------------------------------------ *)
Pow2(n) == 2^n
Shl(x, n) == x * Pow2(n)
Shr(x, n) == x \div Pow2(n)
RECURSIVE BitAnd(_, _)
BitAnd(x, y) ==
    IF x = 0 \/ y = 0 THEN 0
    ELSE (x % 2) * (y % 2) + 2 * BitAnd(x \div 2, y \div 2)
BitOr(x, y) == x + y - BitAnd(x, y)
\* ubyte and uword truncation.
U8(x) == x % 256
U16(x) == x % 65536
SetMin(S) == CHOOSE x \in S : \A y \in S : x <= y
Last(q) == q[Len(q)]

(* ------------------------------------------------------------------ *)
(* Conversion timing of hsk_adc_init()                                *)
(* ------------------------------------------------------------------ *)
\* convTime *= 24, in the uword parameter.
Ticks(convTime) == U16(convTime * 24)

\* The if chain choosing the prescaler for the tick count in convTime.
CtcFor(bits, ticks) ==
    IF ticks <= 1 + 2 * (258 + bits) THEN ADC_CLK_12MHz
    ELSE IF ticks <= 1 + 3 * (258 + bits) THEN ADC_CLK_8MHz
    ELSE IF ticks <= 1 + 4 * (258 + bits) THEN ADC_CLK_6MHz
    ELSE ADC_CLK_750kHz

\* The divisor each branch of the chain uses.
Divider(c) ==
    IF c = ADC_CLK_12MHz THEN 2
    ELSE IF c = ADC_CLK_8MHz THEN 3
    ELSE IF c = ADC_CLK_6MHz THEN 4
    ELSE 32

\* stc = (convTime - 1) / divider - 3 - resolution, in uword arithmetic,
\* then stc = stc >= 1 << 8 ? (1 << 8) - 1 : stc.
StcRaw(bits, ticks) ==
    U16(U16(ticks - 1) \div Divider(CtcFor(bits, ticks)) - 3 - bits)
StcFor(bits, ticks) ==
    IF StcRaw(bits, ticks) >= Shl(1, 8) THEN Shl(1, 8) - 1
    ELSE StcRaw(bits, ticks)

VARIABLES
    targets,      \* targets[ch]: registered target address, NULL if none
    nextChannel,  \* the scheduler cursor (a ubyte), ADC_CHANNELS = none
    isr,          \* hsk_isr6.ADCSR0: "isr10", "isr8" or "warmup10"
    EADC,         \* the ADC interrupt enable bit
    resolution,   \* conversion width selected by the DW bit: 10 or 8
    ctc,          \* the CTC field of ADC_GLOBCTR (clock prescaler)
    stc,          \* ADC_INPCR0 (sample time)
    queue,        \* hardware request queue: channels written to QINR0
    resReg,       \* result register 0: [valid, chn, result]
    mem,          \* contents of the target locations
    pc,           \* position of the foreground code
    channel,      \* argument of the running open/close
    target,       \* argument of the running open
    eadc,         \* the local "bool eadc" of the running open/close
    ret,          \* the last return value of service()/request()
    entryEADC,    \* observer: EADC when the running function was entered
    delivered,    \* observer: a delivery happened since warmup was entered
    win,          \* observer: requests issued by service() in a window
    hist          \* observer: call arguments, snapshots and logs

vars == <<targets, nextChannel, isr, EADC, resolution, ctc, stc, queue,
          resReg, mem, pc, channel, target, eadc, ret, entryEADC, delivered,
          win, hist>>

config == <<resolution, ctc, stc>>

hw == <<queue, resReg>>
locals == <<channel, target, eadc>>
observers == <<entryEADC, delivered, win>>

NoResult == [valid |-> FALSE, chn |-> 0, result |-> 0]
NoWindow == [on |-> FALSE, n |-> 0, cnt |-> [c \in Channels |-> 0]]
NoReturn == [op |-> "none", val |-> 0]

\* The registry, the cursor, the handler and the interrupt enable bit.
DriverState == <<targets, nextChannel, isr, EADC>>
NoSnap == [on |-> FALSE, ch |-> 0, state |-> <<>>]
\* The observer record:
\*   arg      the arguments of the hsk_adc_init() call
\*   watch    which of the fields below are kept ("call", "snap", "log",
\*            "closed", "fresh")
\*   call     the driver function the application called last
\*   pre      DriverState when the running hsk_adc_close() was entered
\*   post     DriverState when the last hsk_adc_close() returned, as long
\*            as nothing but a close of the same channel was called since
\*   inflight channels of the accepted requests not yet handled
\*   last     1 + the channel the handler last ran for since the last
\*            hsk_adc_close() returned, 0 if none
\*   closed   channels hsk_adc_close() returned for and no open was
\*            called for since
\*   fresh    target locations the handler wrote since the last warm-up
\*            invalidated the targets
NoHist(r, t, w) ==
    [arg |-> [resolution |-> r, convTime |-> t], watch |-> w,
     call |-> "none", pre |-> NoSnap, post |-> NoSnap, inflight |-> <<>>,
     last |-> 0, closed |-> {}, fresh |-> {}]
Watched(f, new, old) == IF f \in hist.watch THEN new ELSE old
Snap(ch, s) == [on |-> TRUE, ch |-> ch, state |-> s]

\* The observer after the application called the function `name`.
HistCall(name) ==
    [hist EXCEPT !.call = Watched("call", name, @), !.post = NoSnap]
\* ... called an open function for channel ch, with the resolution
\* matching or not.
HistOpen(name, ch, matching) ==
    [HistCall(name) EXCEPT
        !.closed = Watched("closed", IF matching THEN @ \ {ch} ELSE @, @)]
\* ... called hsk_adc_close(ch).
HistClose(ch) ==
    [hist EXCEPT !.call = Watched("call", "close", @),
                 !.pre = Watched("snap", Snap(ch, DriverState), @),
                 !.post = IF @.on /\ @.ch = ch THEN @ ELSE NoSnap]
\* ... left hsk_adc_close() in the driver state s.
HistCloseExit(ch, s) ==
    [hist EXCEPT !.pre = NoSnap, !.post = Watched("snap", Snap(ch, s), @),
                 !.last = 0,
                 !.closed = Watched("closed", @ \cup {ch}, @)]
\* ... called request() or service() for channel ch, accepted or not.
HistAccept(name, ch, accepted) ==
    [hist EXCEPT !.call = Watched("call", name, @), !.post = NoSnap,
                 !.inflight = Watched("log",
                                  IF accepted THEN Append(@, ch) ELSE @, @)]
\* The observer after the handler ran for channel ch, writing to the
\* location t unless that is NULL.
HistDeliver(ch, t) ==
    [hist EXCEPT !.inflight = Watched("log",
                                  IF @ = <<>> THEN @ ELSE Tail(@), @),
                 !.last = Watched("log", ch + 1, @),
                 !.fresh = Watched("fresh",
                               IF t = NULL THEN @ ELSE @ \cup {t}, @)]
\* The observer after hsk_adc_warmup10() invalidated the targets.
HistWarmup ==
    [hist EXCEPT !.call = Watched("call", "warmup10", @), !.post = NoSnap,
                 !.fresh = {}]

\* The widest raw result of the configured resolution.
FullScale == IF resolution = 10 THEN Pow2(CNT_RESULT) - 1 ELSE 255
RawResults == (0..MaxResult) \cup {FullScale}

Open == {c \in Channels : targets[c] # NULL}

(* ------------------------------------------------------------------ *)
(* Hardware registers as the driver reads them                        *)
(* ------------------------------------------------------------------ *)
\* QSR0: filling level (entries - 1) in FILL, EMPTY set iff no entry.
ADC_QSR0 ==
    IF Len(queue) = 0 THEN Shl(1, BIT_EMPTY)
    ELSE Shl((IF Len(queue) > ADC_QUEUE THEN ADC_QUEUE ELSE Len(queue)) - 1,
             BIT_FILL)
\* RESR0L/H: channel number in CHNR, the 10 bit result from bit 6 up.
\* In 8 bit mode the result is the high byte.
ADC_RESR0LH ==
    IF resolution = 10
    THEN Shl(resReg.result, BIT_RESULT) + Shl(resReg.chn, BIT_CHNR)
    ELSE Shl(resReg.result, 8) + Shl(resReg.chn, BIT_CHNR)
ADC_RESR0L == ADC_RESR0LH % 256
ADC_RESR0H == ADC_RESR0LH \div 256

(* ------------------------------------------------------------------ *)
(* Initial state: after hsk_adc_init() on a freshly started controller *)
(* ------------------------------------------------------------------ *)
\* The conversion time the application asks for, in microseconds.
InitConvTime == 20

InitFor(w) ==
    /\ resolution \in {10, 8}
    /\ ctc = CtcFor(resolution, Ticks(InitConvTime))
    /\ stc = StcFor(resolution, Ticks(InitConvTime))
    /\ hist = NoHist(resolution, InitConvTime, w)
    /\ targets = [c \in Channels |-> NULL]
    /\ nextChannel = ADC_CHANNELS
    /\ isr = IF resolution = 10 THEN "isr10" ELSE "isr8"
    /\ EADC = TRUE
    /\ queue = <<>>
    /\ resReg = NoResult
    /\ mem = [a \in Addrs |-> 0]
    /\ pc = "idle"
    /\ channel = 0
    /\ target = NULL
    /\ eadc = FALSE
    /\ ret = NoReturn
    /\ entryEADC = FALSE
    /\ delivered = FALSE
    /\ win = NoWindow

Init == InitFor({})
Init10 == Init /\ resolution = 10
\* The same with fields of the observer record kept.
Init10Snap == InitFor({"snap"}) /\ resolution = 10
InitCalls == InitFor({"call"})
Init10Log == InitFor({"log"}) /\ resolution = 10
InitLog == InitFor({"log", "closed"})
Init10Fresh == InitFor({"call", "fresh"}) /\ resolution = 10

\* A controller out of reset: hsk_adc_init() has not run, no handler is
\* installed and the interrupt is disabled; the application is about to
\* call hsk_adc_init() with the arguments in hist.arg.
InitReset ==
    /\ hist \in {NoHist(r, t, {}) : r \in {10, 8}, t \in 0..65535}
    /\ resolution = 10
    /\ ctc = 0
    /\ stc = 0
    /\ targets = [c \in Channels |-> NULL]
    /\ nextChannel = ADC_CHANNELS
    /\ isr = "none"
    /\ EADC = FALSE
    /\ queue = <<>>
    /\ resReg = NoResult
    /\ mem = [a \in Addrs |-> 0]
    /\ pc = "idle"
    /\ channel = 0
    /\ target = NULL
    /\ eadc = FALSE
    /\ ret = NoReturn
    /\ entryEADC = FALSE
    /\ delivered = FALSE
    /\ win = NoWindow

\* hsk_adc_init(resolution, convTime), r being the width the resolution
\* argument selects: the registry is cleared, the width, the prescaler
\* and the sample time are written, the normal handler is installed and
\* the interrupt enabled. The cursor and the request queue are not
\* touched.
hsk_adc_init(r, t) ==
    /\ pc = "idle"
    /\ targets' = [c \in Channels |-> NULL]
    /\ resolution' = r
    /\ ctc' = CtcFor(r, Ticks(t))
    /\ stc' = StcFor(r, Ticks(t))
    /\ isr' = IF r = 10 THEN "isr10" ELSE "isr8"
    /\ EADC' = TRUE
    /\ hist' = [HistCall("init") EXCEPT
                    !.arg = [resolution |-> r, convTime |-> t]]
    /\ UNCHANGED <<nextChannel, hw, mem, pc, locals, ret, observers>>

\* The first call, with the arguments the application chose.
InitCall ==
    /\ isr = "none"
    /\ hsk_adc_init(hist.arg.resolution, hist.arg.convTime)

(* ------------------------------------------------------------------ *)
(* Result delivery (interrupt context)                                *)
(* ------------------------------------------------------------------ *)
\* A channel number read with a mask one bit too narrow.
IsrChannelNarrow ==
    BitAnd(Shr(ADC_RESR0L, BIT_CHNR), Shl(1, CNT_CHNR - 1) - 1)
\* channel = (ADC_RESR0L >> BIT_CHNR) & ((1 << CNT_CHNR) - 1)
IsrChannel == BitAnd(Shr(ADC_RESR0L, BIT_CHNR), Shl(1, CNT_CHNR) - 1)
IsrResult10NoShift == BitAnd(ADC_RESR0LH, Shl(1, CNT_RESULT) - 1)
\* result = (ADC_RESR0LH >> BIT_RESULT) & ((1 << CNT_RESULT) - 1)
IsrResult10 == BitAnd(Shr(ADC_RESR0LH, BIT_RESULT), Shl(1, CNT_RESULT) - 1)
\* result = ADC_RESR0H
IsrResult8 == ADC_RESR0H

\* A handler that writes to the location of the channel whether the
\* channel is registered or not.
DeliverUnchecked(ch, result) ==
    IF TargetOf(ch) \in Addrs
    THEN [mem EXCEPT ![TargetOf(ch)] = result]
    ELSE mem
\* The memory after "if (targets[channel].ptr) *targets[channel].ptr = result".
Deliver(ch, result) ==
    IF targets[ch] # NULL
    THEN [mem EXCEPT ![targets[ch]] = result]
    ELSE mem

\* hsk_adc_isr10(): reading result register 0 releases it (valid flag reset
\* on access, wait-for-read mode).
hsk_adc_isr10 ==
    /\ mem' = Deliver(IsrChannel, IsrResult10)
    /\ resReg' = NoResult

hsk_adc_isr8 ==
    /\ mem' = Deliver(IsrChannel, IsrResult8)
    /\ resReg' = NoResult

\* A scan that stops short of the last four slots.
NotWarmedUpShort(m) ==
    \E i \in 0..(ADC_CHANNELS - 5) :
        targets[i] # NULL /\ m[targets[i]] = U16(-1)

\* The scan of hsk_adc_isr_warmup10() over the memory m left by the
\* delivery: some registered target still reads as (uword) -1.
NotWarmedUp(m) ==
    \E i \in 0..(ADC_CHANNELS - 1) :
        targets[i] # NULL /\ m[targets[i]] = U16(-1)

hsk_adc_isr_warmup10 ==
    /\ hsk_adc_isr10
    /\ isr' = IF NotWarmedUp(mem') THEN isr ELSE "isr10"

\* The ADCSR0 interrupt: taken when a result is waiting and EADC is set;
\* it stays pending while EADC is clear (IMODE = 1).
Interrupt ==
    /\ EADC
    /\ resReg.valid
    /\ IF isr = "isr10" THEN hsk_adc_isr10 /\ isr' = isr
       ELSE IF isr = "isr8" THEN hsk_adc_isr8 /\ isr' = isr
       ELSE hsk_adc_isr_warmup10
    /\ delivered' = TRUE
    /\ hist' = HistDeliver(IsrChannel, targets[IsrChannel])
    /\ UNCHANGED <<targets, nextChannel, EADC, config, queue, pc,
                   locals, ret, entryEADC, win>>

\* The converter finishes the oldest queued request with raw result r and
\* stores it in result register 0 once that register has been read.
Complete(r) ==
    /\ Len(queue) > 0
    /\ ~resReg.valid
    /\ resReg' = [valid |-> TRUE, chn |-> Head(queue), result |-> r]
    /\ queue' = Tail(queue)
    /\ UNCHANGED <<targets, nextChannel, isr, EADC, config, hist, mem, pc,
                   locals, ret, observers>>

(* ------------------------------------------------------------------ *)
(* Queue request interface                                            *)
(* ------------------------------------------------------------------ *)
\* (ADC_QSR0 & ((((1 << CNT_FILL) - 1) << BIT_FILL) | (1 << BIT_EMPTY)))
\*     == ((ADC_QUEUE - 1) << BIT_FILL)
QueueFullOffByOne ==
    BitAnd(ADC_QSR0,
           BitOr(Shl(Shl(1, CNT_FILL) - 1, BIT_FILL), Shl(1, BIT_EMPTY)))
        = Shl(ADC_QUEUE, BIT_FILL)
QueueFull ==
    BitAnd(ADC_QSR0,
           BitOr(Shl(Shl(1, CNT_FILL) - 1, BIT_FILL), Shl(1, BIT_EMPTY)))
        = Shl(ADC_QUEUE - 1, BIT_FILL)

\* The queue after ADC_QINR0 = channel << BIT_REQCHNR.
WriteQINR0(v) == Append(queue, BitAnd(Shr(v, BIT_REQCHNR), 7))

\* hsk_adc_request(ch): its return value and its effect on the queue.
hsk_adc_request(ch) ==
    IF QueueFull
    THEN /\ ret' = [op |-> "request", val |-> 0]
         /\ queue' = queue
    ELSE /\ ret' = [op |-> "request", val |-> 1]
         /\ queue' = WriteQINR0(Shl(ch, BIT_REQCHNR))

Request(ch) ==
    /\ pc = "idle"
    /\ hsk_adc_request(ch)
    /\ hist' = HistAccept("request", ch, queue' # queue)
    /\ UNCHANGED <<targets, nextChannel, isr, EADC, config, resReg, mem,
                   pc, locals, observers>>

(* ------------------------------------------------------------------ *)
(* Channel scheduler                                                  *)
(* ------------------------------------------------------------------ *)
\* while (!targets[++nextChannel % ADC_CHANNELS].ptr10);
\* The values the ubyte cursor takes from nc on; the loop ends at the
\* first one whose slot is registered.
AdvancedStay(nc, k) == U8(nc)
Advanced(nc, k) == U8(nc + k)
AdvanceStops(nc) ==
    {k \in 1..256 : targets[Advanced(nc, k) % ADC_CHANNELS] # NULL}

\* The indices at which the advance loop reads targets[].
ServiceInspected(nc) ==
    {Advanced(nc, k) % ADC_CHANNELS :
        k \in 1..(IF AdvanceStops(nc) = {} THEN 256
                  ELSE SetMin(AdvanceStops(nc)))}

\* hsk_adc_service() that moves the cursor on before it knows whether the
\* request was accepted.
hsk_adc_service_eager(p) ==
    IF nextChannel >= ADC_CHANNELS
    THEN /\ ret' = [op |-> "service", val |-> 0]
         /\ UNCHANGED <<nextChannel, queue>>
         /\ pc' = p
    ELSE /\ queue' = IF QueueFull THEN queue
                     ELSE WriteQINR0(Shl(nextChannel, BIT_REQCHNR))
         /\ ret' = [op |-> "service", val |-> IF QueueFull THEN 0 ELSE 1]
         /\ nextChannel' =
                Advanced(nextChannel, SetMin(AdvanceStops(nextChannel)))
                    % ADC_CHANNELS
         /\ pc' = p

\* hsk_adc_service() from the foreground position p; it does not return
\* (position "service_spin") when the advance loop finds no target.
hsk_adc_service(p) ==
    IF nextChannel >= ADC_CHANNELS
    THEN /\ ret' = [op |-> "service", val |-> 0]
         /\ UNCHANGED <<nextChannel, queue>>
         /\ pc' = p
    ELSE IF QueueFull
    THEN /\ ret' = [op |-> "service", val |-> 0]
         /\ UNCHANGED <<nextChannel, queue>>
         /\ pc' = p
    ELSE /\ queue' = WriteQINR0(Shl(nextChannel, BIT_REQCHNR))
         /\ IF AdvanceStops(nextChannel) = {}
            THEN /\ pc' = "service_spin"
                 /\ UNCHANGED <<nextChannel, ret>>
            ELSE /\ nextChannel' =
                        Advanced(nextChannel, SetMin(AdvanceStops(nextChannel)))
                            % ADC_CHANNELS
                 /\ ret' = [op |-> "service", val |-> 1]
                 /\ pc' = p

\* The window observer: counts the requests service() issues.
WinAfter ==
    IF win.on /\ Len(queue') > Len(queue)
    THEN IF win.n < MaxWindow
         THEN [win EXCEPT !.n = @ + 1, !.cnt[Last(queue')] = @ + 1]
         ELSE NoWindow
    ELSE win

Service ==
    /\ pc = "idle"
    /\ hsk_adc_service("idle")
    /\ win' = WinAfter
    /\ hist' = HistAccept("service", nextChannel, queue' # queue)
    /\ UNCHANGED <<targets, isr, EADC, config, resReg, mem, locals,
                   entryEADC, delivered>>

(* ------------------------------------------------------------------ *)
(* Conversion target registry: open and close                         *)
(* ------------------------------------------------------------------ *)
\* Back in the caller: the frame of the finished function is gone.
Return ==
    /\ pc' = "idle"
    /\ channel' = 0
    /\ target' = NULL
    /\ eadc' = FALSE
    /\ entryEADC' = FALSE

\* An entry that registers the target whatever the configured resolution.
OpenEnterUnchecked(bits, ch, t) ==
    /\ pc = "idle"
    /\ eadc' = EADC
    /\ entryEADC' = EADC
    /\ EADC' = FALSE
    /\ channel' = ch
    /\ target' = t
    /\ pc' = "open_write"
    /\ win' = NoWindow
    /\ hist' = HistOpen(IF bits = 10 THEN "open10" ELSE "open8", ch, TRUE)
    /\ UNCHANGED <<targets, nextChannel, isr, config, hw, mem, ret,
                   delivered>>

\* Entry of hsk_adc_open10()/hsk_adc_open8() for the mode `bits`:
\* "bool eadc = EADC", the resolution check, "EADC = 0".
OpenEnter(bits, ch, t) ==
    /\ pc = "idle"
    /\ IF resolution # bits
       THEN /\ Return
            /\ UNCHANGED <<EADC, win>>
       ELSE /\ eadc' = EADC
            /\ entryEADC' = EADC
            /\ EADC' = FALSE
            /\ channel' = ch
            /\ target' = t
            /\ pc' = "open_write"
            /\ win' = NoWindow
    /\ hist' = HistOpen(IF bits = 10 THEN "open10" ELSE "open8", ch,
                        resolution = bits)
    /\ UNCHANGED <<targets, nextChannel, isr, config, hw, mem, ret,
                   delivered>>

hsk_adc_open10(ch, t) == OpenEnter(10, ch, t)
hsk_adc_open8(ch, t) == OpenEnter(8, ch, t)

\* A pointer is wider than the 8 bit data path: the assignment to
\* targets[channel] is a store of the low byte followed by a store of the
\* high byte; p with its low byte replaced by that of q.
WithLowByte(p, q) == 256 * (p \div 256) + (q % 256)

\* targets[channel].ptr10 = target, the low byte
OpenWriteLow ==
    /\ pc = "open_write"
    /\ targets' = [targets EXCEPT ![channel] = WithLowByte(@, target)]
    /\ pc' = "open_write_high"
    /\ UNCHANGED <<nextChannel, isr, EADC, config, hist, hw, mem, locals, ret,
                   observers>>

\* targets[channel].ptr10 = target, the high byte
OpenWrite ==
    /\ pc = "open_write_high"
    /\ targets' = [targets EXCEPT ![channel] = target]
    /\ pc' = "open_exit"
    /\ UNCHANGED <<nextChannel, isr, EADC, config, hist, hw, mem, locals, ret,
                   observers>>

\* An exit that enables the interrupt instead of restoring it.
OpenExitEnable ==
    /\ pc = "open_exit"
    /\ EADC' = TRUE
    /\ nextChannel' = IF nextChannel >= ADC_CHANNELS THEN channel
                      ELSE nextChannel
    /\ Return
    /\ UNCHANGED <<targets, isr, config, hist, hw, mem, ret, delivered, win>>

\* "EADC = eadc" and the claim of the cursor when no channel is open.
OpenExit ==
    /\ pc = "open_exit"
    /\ EADC' = eadc
    /\ nextChannel' = IF nextChannel >= ADC_CHANNELS THEN channel
                      ELSE nextChannel
    /\ Return
    /\ UNCHANGED <<targets, isr, config, hist, hw, mem, ret, delivered, win>>

\* An entry that leaves the interrupt enabled.
hsk_adc_close_unmasked(ch) ==
    /\ pc = "idle"
    /\ eadc' = EADC
    /\ entryEADC' = EADC
    /\ EADC' = EADC
    /\ channel' = ch
    /\ pc' = "close_write"
    /\ win' = NoWindow
    /\ hist' = HistClose(ch)
    /\ UNCHANGED <<targets, nextChannel, isr, config, hw, mem, target,
                   ret, delivered>>

\* Entry of hsk_adc_close(): "bool eadc = EADC; EADC = 0".
hsk_adc_close(ch) ==
    /\ pc = "idle"
    /\ eadc' = EADC
    /\ entryEADC' = EADC
    /\ EADC' = FALSE
    /\ channel' = ch
    /\ pc' = "close_write"
    /\ win' = NoWindow
    /\ hist' = HistClose(ch)
    /\ UNCHANGED <<targets, nextChannel, isr, config, hw, mem, target,
                   ret, delivered>>

\* targets[channel].ptr10 = 0, the low byte
CloseWriteLow ==
    /\ pc = "close_write"
    /\ targets' = [targets EXCEPT ![channel] = WithLowByte(@, NULL)]
    /\ pc' = "close_write_high"
    /\ UNCHANGED <<nextChannel, isr, EADC, config, hist, hw, mem, locals, ret,
                   observers>>

\* targets[channel].ptr10 = 0, the high byte
CloseWrite ==
    /\ pc = "close_write_high"
    /\ targets' = [targets EXCEPT ![channel] = NULL]
    /\ pc' = "close_exit"
    /\ UNCHANGED <<nextChannel, isr, EADC, config, hist, hw, mem, locals, ret,
                   observers>>

\* What "!targets[j].ptr10" reads in the search loop of hsk_adc_close():
\* j is used as it is, so from ADC_CHANNELS on the read is past the end of
\* targets[] and finds whatever the memory behind the array holds;
\* `behind` is the set of those indices whose memory is not zero.
SlotSet(j, behind) ==
    IF j < ADC_CHANNELS THEN targets[j] # NULL ELSE j \in behind

\* for (; nextChannel < channel + ADC_CHANNELS
\*        && !targets[nextChannel].ptr10; nextChannel++);
CloseSearch(from, ch, behind) ==
    SetMin({j \in from..(ch + ADC_CHANNELS) :
                j >= ch + ADC_CHANNELS \/ SlotSet(j, behind)})

\* The indices at which that loop reads targets[]: every value of
\* nextChannel below channel + ADC_CHANNELS it passes or stops at (at
\* channel + ADC_CHANNELS the first operand of && ends the loop before
\* the read).
CloseInspected(from, ch, behind) ==
    {j \in from..CloseSearch(from, ch, behind) : j < ch + ADC_CHANNELS}

\* nextChannel %= ADC_CHANNELS; if (!targets[nextChannel].ptr10) ...
CloseCursor(ch, behind) ==
    LET n == CloseSearch(nextChannel, ch, behind) % ADC_CHANNELS
    IN  IF targets[n] = NULL THEN ADC_CHANNELS ELSE n

\* "EADC = eadc" and the search for an alternative cursor.
CloseExit ==
    /\ pc = "close_exit"
    /\ EADC' = eadc
    /\ IF nextChannel = channel
       THEN \E behind \in SUBSET (ADC_CHANNELS..(channel + ADC_CHANNELS - 1)) :
                nextChannel' = CloseCursor(channel, behind)
       ELSE nextChannel' = nextChannel
    /\ Return
    /\ UNCHANGED <<targets, isr, config, hw, mem, ret, delivered, win>>
    /\ hist' = HistCloseExit(channel, DriverState')

\* The positions of the foreground inside hsk_adc_warmup10().
WarmupPositions ==
    {"warmup_mask", "warmup_swap", "warmup_unmask", "warmup_loop"}

\* The search of hsk_adc_close() over the registry tg, from cursor nc.
CloseCursorIn(tg, nc, ch, behind) ==
    LET stop == SetMin({j \in nc..(ch + ADC_CHANNELS) :
                           \/ j >= ch + ADC_CHANNELS
                           \/ IF j < ADC_CHANNELS THEN tg[j] # NULL
                              ELSE j \in behind})
        n == stop % ADC_CHANNELS
    IN  IF tg[n] = NULL THEN ADC_CHANNELS ELSE n

\* hsk_adc_close(ch) called from an interrupt handler of the application
\* while the foreground is inside hsk_adc_warmup10(): the whole function
\* runs before the foreground continues; EADC is cleared and restored
\* inside.
IsrClose(ch) ==
    /\ pc \in WarmupPositions
    /\ targets' = [targets EXCEPT ![ch] = NULL]
    /\ IF nextChannel = ch
       THEN \E behind \in SUBSET (ADC_CHANNELS..(ch + ADC_CHANNELS - 1)) :
                nextChannel' = CloseCursorIn(targets', nextChannel, ch, behind)
       ELSE nextChannel' = nextChannel
    /\ hist' = [hist EXCEPT !.call = Watched("call", "close", @),
                            !.closed = Watched("closed", @ \cup {ch}, @)]
    /\ UNCHANGED <<isr, EADC, config, hw, mem, pc, locals, ret, observers>>

\* The application starts counting the requests service() issues.
StartWindow ==
    /\ pc = "idle"
    /\ win' = [NoWindow EXCEPT !.on = TRUE]
    /\ UNCHANGED <<targets, nextChannel, isr, EADC, config, hist, hw, mem, pc,
                   locals, ret, entryEADC, delivered>>

\* The application masks or unmasks the ADC interrupt itself.
CallerSetEADC(b) ==
    /\ pc = "idle"
    /\ EADC' = b
    /\ hist' = HistCall("EADC")
    /\ UNCHANGED <<targets, nextChannel, isr, config, hw, mem, pc,
                   locals, ret, observers>>

\* The application issues a direct request only when none is in flight.
RequestIdle(ch) ==
    /\ Len(queue) = 0
    /\ ~resReg.valid
    /\ Request(ch)

(* ------------------------------------------------------------------ *)
(* Warm-up sequencer                                                  *)
(* ------------------------------------------------------------------ *)
\* The memory after the loop writing 0xffff into every registered target.
Invalidated ==
    [a \in Addrs |->
        IF \E i \in 0..(ADC_CHANNELS - 1) : targets[i] = a
        THEN WARMUP_INVALID ELSE mem[a]]

\* Entry of hsk_adc_warmup10(): the resolution check and the loop that
\* invalidates the targets.
hsk_adc_warmup10 ==
    /\ pc = "idle"
    /\ IF resolution # 10
       THEN /\ Return
            /\ hist' = HistCall("warmup10")
            /\ UNCHANGED <<mem, delivered, win>>
       ELSE /\ mem' = Invalidated
            /\ hist' = HistWarmup
            /\ pc' = "warmup_mask"
            /\ entryEADC' = EADC
            /\ delivered' = FALSE
            /\ win' = NoWindow
            /\ UNCHANGED locals
    /\ UNCHANGED <<targets, nextChannel, isr, EADC, config, hw, ret>>

\* EADC = 0
WarmupMask ==
    /\ pc = "warmup_mask"
    /\ EADC' = FALSE
    /\ pc' = "warmup_swap"
    /\ UNCHANGED <<targets, nextChannel, isr, config, hist, hw, mem, locals,
                   ret, observers>>

\* hsk_isr6.ADCSR0 = &hsk_adc_isr_warmup10
WarmupSwap ==
    /\ pc = "warmup_swap"
    /\ isr' = "warmup10"
    /\ pc' = "warmup_unmask"
    /\ UNCHANGED <<targets, nextChannel, EADC, config, hist, hw, mem, locals,
                   ret, observers>>

\* EADC = 1
WarmupUnmask ==
    /\ pc = "warmup_unmask"
    /\ EADC' = TRUE
    /\ pc' = "warmup_loop"
    /\ UNCHANGED <<targets, nextChannel, isr, config, hist, hw, mem, locals,
                   ret, observers>>

\* while (hsk_isr6.ADCSR0 == &hsk_adc_isr_warmup10) hsk_adc_service();
WarmupLoop ==
    /\ pc = "warmup_loop"
    /\ IF isr = "warmup10"
       THEN /\ hsk_adc_service("warmup_loop")
            /\ hist' = HistAccept("warmup10", nextChannel, queue' # queue)
            /\ UNCHANGED <<locals, entryEADC>>
       ELSE /\ Return
            /\ UNCHANGED <<nextChannel, queue, ret, hist>>
    /\ UNCHANGED <<targets, isr, EADC, config, resReg, mem, delivered,
                   win>>

(* ------------------------------------------------------------------ *)
(* Specifications                                                     *)
(* ------------------------------------------------------------------ *)
\* Scheduling: open, close, service and request on the used channels in
\* 10 bit mode, the converter completing requests (every result 0) and the
\* interrupt delivering them.
NextSched ==
    \/ \E c \in UsedChannels : hsk_adc_open10(c, TargetOf(c))
    \/ OpenWriteLow
    \/ OpenWrite
    \/ OpenExit
    \/ \E c \in UsedChannels : hsk_adc_close(c)
    \/ CloseWriteLow
    \/ CloseWrite
    \/ CloseExit
    \/ Service
    \/ \E c \in UsedChannels : Request(c)
    \/ Complete(0)
    \/ Interrupt

SpecSched == Init10 /\ [][NextSched]_vars

\* Round robin: as SpecSched with service() as the only source of
\* requests; the application may start counting a window at any time.
NextRR ==
    \/ \E c \in UsedChannels : hsk_adc_open10(c, TargetOf(c))
    \/ OpenWriteLow
    \/ OpenWrite
    \/ OpenExit
    \/ \E c \in UsedChannels : hsk_adc_close(c)
    \/ CloseWriteLow
    \/ CloseWrite
    \/ CloseExit
    \/ Service
    \/ StartWindow
    \/ Complete(0)
    \/ Interrupt

SpecRR == Init10 /\ [][NextRR]_vars

Spec == SpecSched

\* The same with the observer logging accepted requests and handler runs.
SpecOrder == Init10Log /\ [][NextSched]_vars

\* Polling: service() is the only source of requests and the application
\* calls it again and again; foreground code that has been entered keeps
\* running, the converter completes a queued request and a pending
\* interrupt is taken as soon as EADC is set, before the foreground code
\* can clear it again.
NextServe ==
    \/ \E c \in UsedChannels : hsk_adc_open10(c, TargetOf(c))
    \/ OpenWriteLow
    \/ OpenWrite
    \/ OpenExit
    \/ \E c \in UsedChannels : hsk_adc_close(c)
    \/ CloseWriteLow
    \/ CloseWrite
    \/ CloseExit
    \/ Service
    \/ Complete(0)
    \/ Interrupt

FairServe ==
    /\ SF_vars(Service)
    /\ WF_vars(OpenWriteLow)
    /\ WF_vars(OpenWrite)
    /\ WF_vars(OpenExit)
    /\ WF_vars(CloseWriteLow)
    /\ WF_vars(CloseWrite)
    /\ WF_vars(CloseExit)
    /\ WF_vars(Complete(0))
    /\ SF_vars(Interrupt)

SpecServe == Init10 /\ [][NextServe]_vars
SpecServeFair == SpecServe /\ FairServe

\* Delivery: both resolutions, every raw result, one request in flight.
NextDeliver ==
    \/ \E c \in UsedChannels : hsk_adc_open10(c, TargetOf(c))
    \/ \E c \in UsedChannels : hsk_adc_open8(c, TargetOf(c))
    \/ OpenWriteLow
    \/ OpenWrite
    \/ OpenExit
    \/ \E c \in UsedChannels : hsk_adc_close(c)
    \/ CloseWriteLow
    \/ CloseWrite
    \/ CloseExit
    \/ \E c \in UsedChannels : RequestIdle(c)
    \/ \E r \in RawResults : Complete(r)
    \/ Interrupt

SpecDeliver == Init /\ [][NextDeliver]_vars

\* The same with the observer recording the function called last.
SpecOpen == InitCalls /\ [][NextDeliver]_vars

\* The same with the observer logging closes and handler runs.
SpecClosed == InitLog /\ [][NextDeliver]_vars

\* Reinitialisation: as SpecSched without direct requests; the
\* application may call hsk_adc_init() again at any time, for either
\* resolution.
ReInit == \E r \in {10, 8} : hsk_adc_init(r, InitConvTime)

NextInit ==
    \/ \E c \in UsedChannels : hsk_adc_open10(c, TargetOf(c))
    \/ OpenWriteLow
    \/ OpenWrite
    \/ OpenExit
    \/ \E c \in UsedChannels : hsk_adc_close(c)
    \/ CloseWriteLow
    \/ CloseWrite
    \/ CloseExit
    \/ Service
    \/ ReInit
    \/ Complete(0)
    \/ Interrupt

SpecInit == Init10Snap /\ [][NextInit]_vars

\* Timing: hsk_adc_init() called on a controller out of reset, for both
\* resolutions and every value of the uword convTime.
NextTiming == InitCall

SpecTiming == InitReset /\ [][NextTiming]_vars

\* Critical sections: the application masks and unmasks the interrupt
\* around open, close and warmup.
NextCrit ==
    \/ \E b \in BOOLEAN : CallerSetEADC(b)
    \/ \E c \in UsedChannels : hsk_adc_open10(c, TargetOf(c))
    \/ OpenWriteLow
    \/ OpenWrite
    \/ OpenExit
    \/ \E c \in UsedChannels : hsk_adc_close(c)
    \/ CloseWriteLow
    \/ CloseWrite
    \/ CloseExit
    \/ hsk_adc_warmup10
    \/ WarmupMask
    \/ WarmupSwap
    \/ WarmupUnmask
    \/ WarmupLoop
    \/ Complete(0)
    \/ Interrupt

SpecCrit == Init10 /\ [][NextCrit]_vars

\* The same with the observer recording the function called last and the
\* targets the handler wrote since the last warm-up began.
SpecWarm == Init10Fresh /\ [][NextCrit]_vars

\* Warm-up with closes from interrupt context: the application opens
\* channels and calls warmup in the foreground, and one of its interrupt
\* handlers may close a channel while warmup runs.
NextWarmClose ==
    \/ \E c \in UsedChannels : hsk_adc_open10(c, TargetOf(c))
    \/ OpenWriteLow
    \/ OpenWrite
    \/ OpenExit
    \/ hsk_adc_warmup10
    \/ WarmupMask
    \/ WarmupSwap
    \/ WarmupUnmask
    \/ WarmupLoop
    \/ \E c \in UsedChannels : IsrClose(c)
    \/ Complete(0)
    \/ Interrupt

FairWarmClose ==
    /\ WF_vars(OpenWriteLow)
    /\ WF_vars(OpenWrite)
    /\ WF_vars(OpenExit)
    /\ WF_vars(WarmupMask)
    /\ WF_vars(WarmupSwap)
    /\ WF_vars(WarmupUnmask)
    /\ WF_vars(WarmupLoop)
    /\ WF_vars(Complete(0))
    /\ SF_vars(Interrupt)

SpecWarmClose == Init10Fresh /\ [][NextWarmClose]_vars
SpecWarmCloseFair == SpecWarmClose /\ FairWarmClose

\* The same with the progress the controller guarantees: foreground code
\* that has been entered keeps running, the converter completes a queued
\* request, and a pending enabled interrupt is taken. The application is
\* free never to call anything.
FairCrit ==
    /\ WF_vars(OpenWriteLow)
    /\ WF_vars(OpenWrite)
    /\ WF_vars(OpenExit)
    /\ WF_vars(CloseWriteLow)
    /\ WF_vars(CloseWrite)
    /\ WF_vars(CloseExit)
    /\ WF_vars(WarmupMask)
    /\ WF_vars(WarmupSwap)
    /\ WF_vars(WarmupUnmask)
    /\ WF_vars(WarmupLoop)
    /\ WF_vars(Complete(0))
    /\ WF_vars(Interrupt)

SpecCritFair == SpecCrit /\ FairCrit

(* ------------------------------------------------------------------ *)
(* Scheduler cursor                                                   *)
(* ------------------------------------------------------------------ *)
\* The first registered channel searching forward from ch + 1 in cyclic
\* order, ADC_CHANNELS when no channel is registered.
NextOpenAfter(ch) ==
    IF Open = {} THEN ADC_CHANNELS
    ELSE (ch + SetMin({k \in 1..ADC_CHANNELS :
                          (ch + k) % ADC_CHANNELS \in Open})) % ADC_CHANNELS

\* C1: between calls the cursor is "none" (ADC_CHANNELS) or the index of a
\* registered channel, and it is not "none" while a channel is registered.
C1_CursorInvariant ==
    pc = "idle" =>
        /\ nextChannel = ADC_CHANNELS \/ nextChannel \in Open
        /\ Open # {} => nextChannel # ADC_CHANNELS

\* C2: close(channel) of the channel the cursor is on leaves the cursor on
\* the first registered channel searching forward from channel + 1 with
\* wrap-around, and on "none" exactly when no channel remains registered.
C2_CloseMovesCursorForward ==
    [][(CloseExit /\ nextChannel = channel)
          => nextChannel' = NextOpenAfter(channel)]_vars

\* C3: service() returns false whenever all channels are closed, and true
\* whenever a channel is open and fewer than ADC_QUEUE requests are pending.
C3_ServiceAvailability ==
    [][Service =>
          /\ Open = {} => ret'.val = 0
          /\ (Open # {} /\ Len(queue) < ADC_QUEUE) => ret'.val = 1]_vars

(* ------------------------------------------------------------------ *)
(* Round robin                                                        *)
(* ------------------------------------------------------------------ *)
\* C6: in a window of N successful service() calls with a fixed set of K
\* open channels, every open channel has been requested floor(N/K) or
\* ceil(N/K) times and no closed channel has been requested.
C6_RoundRobinFair ==
    win.on =>
        LET K == Cardinality(Open)
            N == win.n
        IN  \A c \in Channels :
                IF c \in Open
                THEN \/ win.cnt[c] = N \div K
                     \/ win.cnt[c] = (N + K - 1) \div K
                ELSE win.cnt[c] = 0

\* A window of three requests over two open channels: one channel has
\* been requested once, the other twice.
C6_Witness ==
    /\ win.on
    /\ win.n = 3
    /\ Cardinality(Open) = 2
    /\ \E c \in Open : win.cnt[c] = 1
    /\ \E c \in Open : win.cnt[c] = 2

(* ------------------------------------------------------------------ *)
(* Request queue                                                      *)
(* ------------------------------------------------------------------ *)
\* C7: request(channel) returns false exactly when ADC_QUEUE requests are
\* pending, otherwise it enqueues the channel and returns true; no step of
\* the driver or the converter leaves more than ADC_QUEUE requests pending.
C7_QueueBound ==
    [][/\ \A c \in UsedChannels :
             Request(c) =>
                 /\ ret'.val = 0 <=> Len(queue) = ADC_QUEUE
                 /\ ret'.val = 1 => queue' = Append(queue, c)
                 /\ ret'.val = 0 => queue' = queue
       /\ Len(queue') <= ADC_QUEUE]_vars

\* request() has just refused a request on a queue holding ADC_QUEUE.
C7_Witness ==
    /\ ret = [op |-> "request", val |-> 0]
    /\ Len(queue) = ADC_QUEUE

\* C8: on a full queue request() leaves the queue as it is, and service()
\* returns false leaving the cursor, the registry, the handler and the
\* queue as they are, so the next service() tries the same channel.
C8_QueueFullNoEffect ==
    [][(Len(queue) = ADC_QUEUE /\ (Service \/ \E c \in UsedChannels : Request(c)))
          => /\ ret'.val = 0
             /\ UNCHANGED <<queue, nextChannel, targets, isr>>]_vars

\* service() has just failed on a full queue with the cursor on a channel.
C8_Witness ==
    /\ ret = [op |-> "service", val |-> 0]
    /\ Len(queue) = ADC_QUEUE
    /\ nextChannel \in Open

(* ------------------------------------------------------------------ *)
(* Result delivery                                                    *)
(* ------------------------------------------------------------------ *)
\* C9: a conversion-complete event for channel C with raw result R leaves
\* exactly R in the target registered for C and every other location and
\* every registry slot as they were; with no target registered for C the
\* handler writes nothing.
C9_Delivery ==
    [][Interrupt =>
          LET C == resReg.chn
              R == resReg.result
          IN  /\ targets' = targets
              /\ targets[C] # NULL =>
                     /\ mem'[targets[C]] = R
                     /\ \A a \in Addrs \ {targets[C]} : mem'[a] = mem[a]
              /\ targets[C] = NULL => mem' = mem]_vars

\* In 10 bit mode two registered targets hold delivered results, one of
\* them the full-scale value, and the result register has been read.
C9_Witness ==
    /\ resolution = 10
    /\ pc = "idle"
    /\ delivered
    /\ ~resReg.valid
    /\ \E c, d \in Open :
           /\ mem[targets[c]] = Pow2(CNT_RESULT) - 1
           /\ mem[targets[d]] = 1

(* ------------------------------------------------------------------ *)
(* Critical sections                                                  *)
(* ------------------------------------------------------------------ *)
\* A foreground step that changes the registry or the active handler.
SharedMutation == pc' # pc /\ (targets' # targets \/ isr' # isr)
\* The steps that leave the critical sections of open, close and warmup.
LeavesOpenClose == pc \in {"open_exit", "close_exit"} /\ pc' # pc
LeavesSwap == pc = "warmup_unmask" /\ pc' # pc

\* C10 as stated: open, close and the handler swap of warmup change shared
\* state only with EADC clear, and each leaves EADC as it was on entry.
C10_RestoresMask ==
    [][/\ SharedMutation => ~EADC
       /\ (LeavesOpenClose \/ LeavesSwap) => EADC' = entryEADC]_vars

\* C10, amended: open, close and the handler swap of warmup change shared
\* state only with EADC clear; open and close leave EADC as it was on
\* entry; the handler swap of warmup leaves EADC set whatever it was.
C10_MaskedMutation ==
    [][/\ SharedMutation => ~EADC
       /\ LeavesOpenClose => EADC' = entryEADC
       /\ LeavesSwap => EADC']_vars

\* warmup entered by a caller that had masked the interrupt has swapped
\* the handler and now polls with the interrupt enabled.
C10_Witness ==
    /\ pc = "warmup_loop"
    /\ ~entryEADC
    /\ EADC
    /\ isr = "warmup10"

(* ------------------------------------------------------------------ *)
(* Warm-up                                                            *)
(* ------------------------------------------------------------------ *)
\* C4: warmup() entered with no channel registered completes (the normal
\* handler is active again and the call has returned) without a delivery.
C4_EmptyWarmupCompletes ==
    (pc = "warmup_mask" /\ Open = {})
        ~> (pc = "idle" /\ isr = "isr10" /\ ~delivered)

\* C5: warmup() entered in 10 bit mode with a channel open has written the
\* invalid value into every target, and, the converter completing every
\* request and the interrupt being taken, it reaches the point where no
\* target is invalid, the normal handler is back and the call has returned.
C5_WarmupTerminates ==
    /\ [][(pc = "idle" /\ pc' = "warmup_mask")
             => \A c \in Open : mem'[targets[c]] = WARMUP_INVALID]_vars
    /\ (pc = "warmup_mask" /\ Open # {})
           ~> (/\ pc = "idle"
               /\ isr = "isr10"
               /\ \A c \in Open : mem[targets[c]] # WARMUP_INVALID)

(* ------------------------------------------------------------------ *)
(* Conversion timing                                                  *)
(* ------------------------------------------------------------------ *)
Configured == isr # "none"
Min(a, b) == IF a <= b THEN a ELSE b
Max(a, b) == IF a >= b THEN a ELSE b

\* The sample time the timing formula asks for, in unbounded integers:
\* t microseconds are 24 t ticks, for the prescaler with divider k.
ExactStc(bits, t, k) == (24 * t - 1) \div k - 3 - bits
Fitting(bits, t) ==
    {c \in ADC_CLK_12MHz..ADC_CLK_750kHz :
        ExactStc(bits, t, Divider(c)) <= 255}
\* The fastest prescaler whose sample time fits, the slowest when none
\* does.
FastestFitting(bits, t) ==
    IF Fitting(bits, t) = {} THEN ADC_CLK_750kHz ELSE SetMin(Fitting(bits, t))

\* C11: for every convTime and both resolutions hsk_adc_init() selects the
\* fastest prescaler whose exact sample time is at most 255, and a longer
\* convTime never selects a faster prescaler than the next shorter one.
C11_FastestPrescaler ==
    Configured =>
        /\ ctc = FastestFitting(hist.arg.resolution, hist.arg.convTime)
        /\ hist.arg.convTime > 0 =>
               CtcFor(hist.arg.resolution, Ticks(hist.arg.convTime - 1))
                   <= ctc

\* C12: for every convTime and both resolutions the sample time written
\* is the exact value of the formula for the selected prescaler, clamped
\* to 0..255.
C12_ClampNeverWrap ==
    Configured =>
        stc = Min(255, Max(0, ExactStc(hist.arg.resolution,
                                        hist.arg.convTime, Divider(ctc))))

(* ------------------------------------------------------------------ *)
(* Reinitialisation                                                   *)
(* ------------------------------------------------------------------ *)
\* C13: when hsk_adc_init() returns, whatever the state it was called in,
\* no slot of the registry is registered, the cursor is "none" (so that
\* service() returns 0 without a request), the normal handler of the
\* chosen resolution is installed and the interrupt is enabled.
C13_InitPostcondition ==
    [][ReInit =>
         /\ \A c \in Channels : targets'[c] = NULL
         /\ nextChannel' >= ADC_CHANNELS
         /\ isr' = (IF resolution' = 10 THEN "isr10" ELSE "isr8")
         /\ EADC']_vars

(* ------------------------------------------------------------------ *)
(* Open with the wrong resolution                                     *)
(* ------------------------------------------------------------------ *)
\* C14: hsk_adc_open10() in 8 bit mode and hsk_adc_open8() in 10 bit mode
\* return at once and leave the registry, the cursor, the handler and
\* EADC as they were.
C14_MismatchNoOp ==
    [][\A c \in UsedChannels :
          (\/ resolution # 10 /\ hsk_adc_open10(c, TargetOf(c))
           \/ resolution # 8 /\ hsk_adc_open8(c, TargetOf(c)))
              => (UNCHANGED DriverState /\ pc' = "idle")]_vars

\* A call with the wrong resolution returned while a channel is open.
C14_Witness ==
    /\ pc = "idle"
    /\ \/ hist.call = "open8" /\ resolution = 10
       \/ hist.call = "open10" /\ resolution = 8
    /\ Open # {}
    /\ nextChannel \in Open
    /\ EADC

(* ------------------------------------------------------------------ *)
(* Close twice                                                        *)
(* ------------------------------------------------------------------ *)
\* hsk_adc_close() returns.
CloseReturns == pc = "close_exit" /\ pc' = "idle"
\* The second of two hsk_adc_close() calls for one channel leaves the
\* driver state the first one left.
SecondCloseSame ==
    (hist.post.on /\ hist.post.ch = channel) => DriverState' = hist.post.state
\* hsk_adc_close() of a channel that was not open leaves the driver state
\* it was called in.
CloseOfClosedSame ==
    hist.pre.state[1][channel] = NULL => DriverState' = hist.pre.state

\* C15: close(c); close(c) leaves the registry, the cursor, the handler
\* and EADC as a single close(c) leaves them, and close(c) of a channel
\* that is not open changes none of them.
C15_CloseIdempotent ==
    [][CloseReturns => (SecondCloseSame /\ CloseOfClosedSame)]_vars

(* ------------------------------------------------------------------ *)
(* Starvation                                                         *)
(* ------------------------------------------------------------------ *)
\* A request for channel c is in the queue; its result is waiting in
\* result register 0 with the interrupt enabled and c registered, so that
\* the handler writes it to the target of c.
InQueue(c) == \E i \in 1..Len(queue) : queue[i] = c
ResultDue(c) ==
    resReg.valid /\ resReg.chn = c /\ EADC /\ targets[c] # NULL

\* C16: with service() called again and again and every queued request
\* completed, a channel that stays open from some point on is requested
\* infinitely often and its results keep being written to its target.
C16_NoStarvation ==
    \A c \in UsedChannels :
        <>[](targets[c] # NULL) => ([]<>InQueue(c) /\ []<>ResultDue(c))

(* ------------------------------------------------------------------ *)
(* Delivery order                                                     *)
(* ------------------------------------------------------------------ *)
\* C17: the handler only runs when an accepted request is outstanding,
\* and the channel it runs for is the one of the oldest such request: the
\* channels handled are a prefix of the channels accepted.
C17_DeliveryOrder ==
    [][Interrupt =>
         /\ hist.inflight # <<>>
         /\ IsrChannel = Head(hist.inflight)]_vars

\* The handler ran for one channel while requests for another channel and
\* for the same one were outstanding behind it.
C17_Witness ==
    /\ hist.last # 0
    /\ Len(hist.inflight) >= 2
    /\ hist.inflight[1] # hist.last - 1
    /\ hist.inflight[2] = hist.last - 1

(* ------------------------------------------------------------------ *)
(* Half-written targets                                               *)
(* ------------------------------------------------------------------ *)
\* One byte of targets[channel] is stored, the other not yet.
MidWrite == pc \in {"open_write_high", "close_write_high"}

\* C18: neither handler runs between the two byte stores of a pointer in
\* open or close; a result that arrives while the interrupt is masked
\* stays in result register 0, and when open or close entered with the
\* interrupt enabled has finished it is handled or ready to be handled
\* with the interrupt enabled.
C18_NoHalfWrittenTarget ==
    /\ [][Interrupt => ~MidWrite]_vars
    /\ [][(resReg.valid /\ ~EADC) => resReg' = resReg]_vars
    /\ (MidWrite /\ resReg.valid /\ entryEADC)
           ~> (~resReg.valid \/ (EADC /\ pc = "idle"))

\* A result arrived while hsk_adc_close() had stored one byte of the null
\* pointer.
C18_Witness ==
    /\ pc = "close_write_high"
    /\ targets[channel] \notin Addrs \cup {NULL}
    /\ resReg.valid
    /\ resReg.chn = channel
    /\ entryEADC

(* ------------------------------------------------------------------ *)
(* Writes after close                                                 *)
(* ------------------------------------------------------------------ *)
\* C19: from the return of close(c) until c is opened again no step
\* changes the location that was registered for c, whatever requests for
\* c complete in that time.
C19_NoWriteAfterClose ==
    [][\A c \in hist.closed \cap UsedChannels :
          mem'[TargetOf(c)] = mem[TargetOf(c)]]_vars

\* The handler ran for a channel after its close returned and left the
\* value delivered before the close.
C19_Witness ==
    \E c \in UsedChannels :
        /\ pc = "idle"
        /\ c \in hist.closed
        /\ hist.last = c + 1
        /\ targets[c] = NULL
        /\ mem[TargetOf(c)] = FullScale

(* ------------------------------------------------------------------ *)
(* Warm-up                                                            *)
(* ------------------------------------------------------------------ *)
WarmupReturns == pc = "warmup_loop" /\ pc' = "idle"
HandlerRestored == isr = "warmup10" /\ isr' = "isr10"

\* C20: when hsk_adc_warmup10() returns the normal handler is installed
\* and every registered target holds a value other than 0xffff that the
\* handler wrote after the targets were invalidated; the warm-up handler
\* hands over to the normal one only when no registered target holds
\* 0xffff.
C20_WarmupPostcondition ==
    /\ [][WarmupReturns =>
             /\ isr' = "isr10"
             /\ \A c \in Open :
                    /\ targets[c] \in hist'.fresh
                    /\ mem'[targets[c]] # WARMUP_INVALID]_vars
    /\ [][HandlerRestored =>
             \A c \in Open : mem'[targets[c]] # WARMUP_INVALID]_vars

\* hsk_adc_warmup10() has returned with two channels open.
C20_Witness ==
    /\ pc = "idle"
    /\ hist.call = "warmup10"
    /\ isr = "isr10"
    /\ Cardinality(Open) >= 2
    /\ hist.fresh = {targets[c] : c \in Open}

(* ------------------------------------------------------------------ *)
(* Close during warm-up                                               *)
(* ------------------------------------------------------------------ *)
\* A channel has been closed from interrupt context inside the running
\* hsk_adc_warmup10().
ClosedInWarmup == pc \in WarmupPositions /\ hist.call = "close"

\* C21: after a close from interrupt context during hsk_adc_warmup10()
\* the warm-up still completes and returns.
C21_CloseDuringWarmup == ClosedInWarmup ~> (pc = "idle")

(* ------------------------------------------------------------------ *)
(* Registry index bounds                                              *)
(* ------------------------------------------------------------------ *)
\* C22: every index at which the registry is read or written is in 0..7:
\* the slot open and close write, the channel the handlers deliver to,
\* the slots the advance loop of service() reads and the slots the search
\* of close reads.
C22_IndexBounds ==
    /\ pc \in {"open_write", "open_write_high", "close_write",
                "close_write_high"} => channel \in Channels
    /\ resReg.valid => IsrChannel \in Channels
    /\ nextChannel < ADC_CHANNELS => ServiceInspected(nextChannel) \subseteq Channels
    /\ (pc = "close_exit" /\ nextChannel = channel) =>
           \A behind \in SUBSET (ADC_CHANNELS..(channel + ADC_CHANNELS - 1)) :
               CloseInspected(nextChannel, channel, behind) \subseteq Channels
====
